---- MODULE Spec2Model ----
(***************************************************************************)
(* Model of rn-health: the health-risk scoring engine and its             *)
(* presentation helpers (utils/acmCalculator), and the data hook           *)
(* useHealthData with the view ScreenContent selects from its state.       *)
(*                                                                         *)
(* Representation of values.                                               *)
(*   - A nullable field `number | null` is Null (the empty tuple) or a     *)
(*     one-element tuple <<v>>.                                            *)
(*   - stepCount, heartRate, restingHeartRate, activeEnergyBurned, age and *)
(*     height (cm) carry integers.  weight is carried in hundredths of a   *)
(*     kilogram and bmi in hundredths of a BMI unit, so that 24.95 is 2495.*)
(*   - Every comparison of the source is evaluated exactly, by cross       *)
(*     multiplication.  The input grids below are ones on which the IEEE   *)
(*     double evaluation of the source takes the same branches and rounds  *)
(*     to the same integers (off these grids it need not: weight 64 and    *)
(*     height 160 give calculatedBMI 24.999999999999996, not 25).  NaN and *)
(*     the infinities are not among the inputs.                            *)
(*   - The recommendation strings are named by ASCII keys.                 *)
(***************************************************************************)
EXTENDS Integers, Sequences, FiniteSets, TLC

VARIABLES
    data,          \* the snapshot handed to calculateACMScore
    result,        \* what calculateACMScore returned, Null before the call
    ring,          \* HealthScoreRing: the score shown, its colour and label
    state,         \* useHealthData: the React state of the hook
    initPending,   \* the callback of initHealthKit has not been invoked yet
    batches,       \* the calls of fetchAllHealthData, in the order started
    unreliable,    \* the readings whose request the provider may reject
    refreshCalls   \* the number of calls of refreshData so far

hookVars == <<state, initPending, batches, unreliable, refreshCalls>>

vars == <<data, result, ring, hookVars>>

---------------------------------------------------------------------------
(* Nullable values and JavaScript truthiness                               *)

Null == <<>>

Some(v) == <<v>>

Opt(S) == {Null} \cup {Some(v) : v \in S}

\* `if (x)` on a number | null: false for null and for 0.
Truthy(x) == x # Null /\ x[1] # 0

Abs(x) == IF x < 0 THEN -x ELSE x

\* A clamp that forgets the upper limit.
ClampLowerOnly(score) == IF score < 0 THEN 0 ELSE score

\* Math.max(0, Math.min(100, score))
Clamp(score) == IF score < 0 THEN 0 ELSE IF score > 100 THEN 100 ELSE score

---------------------------------------------------------------------------
(* calculateCardiovascularScore                                            *)

\* The chain with the bonus over the whole "excellent" band 40..60.
RestingHeartRateAdjustmentWideBonus(rhr) ==
    (IF rhr >= 100 THEN -25
     ELSE IF rhr >= 80 THEN -15
     ELSE IF rhr >= 70 THEN -8
     ELSE IF rhr >= 60 THEN -2
     ELSE 0)
    + (IF rhr >= 40 /\ rhr <= 60 THEN 5 ELSE 0)

RestingHeartRateAdjustment(rhr) ==
    (IF rhr >= 100 THEN -25
     ELSE IF rhr >= 80 THEN -15
     ELSE IF rhr >= 70 THEN -8
     ELSE IF rhr >= 60 THEN -2
     ELSE 0)
    + (IF rhr >= 40 /\ rhr <= 55 THEN 5 ELSE 0)

HeartRateVariabilityAdjustment(hr, rhr) ==
    IF Abs(hr - rhr) > 30 THEN -10 ELSE 0

calculateCardiovascularScore(d) ==
    LET s1 == IF Truthy(d.restingHeartRate)
              THEN 100 + RestingHeartRateAdjustment(d.restingHeartRate[1])
              ELSE 100
        s2 == IF Truthy(d.heartRate) /\ Truthy(d.restingHeartRate)
              THEN s1 + HeartRateVariabilityAdjustment(d.heartRate[1],
                                                       d.restingHeartRate[1])
              ELSE s1
    IN  Clamp(s2)

---------------------------------------------------------------------------
(* calculateMetabolicScore                                                 *)

\* The chain applied to a supplied data.bmi (hundredths of a BMI unit).
SuppliedBmiAdjustment(bmi) ==
    IF bmi < 1850 THEN -15
    ELSE IF bmi >= 3000 THEN -30
    ELSE IF bmi >= 2500 THEN -15
    ELSE IF bmi >= 1850 /\ bmi <= 2490 THEN 10
    ELSE 0

\* The chain applied to calculatedBMI = weight / (heightInM * heightInM),
\* with weight in hundredths of a kilogram and height in centimetres:
\* calculatedBMI = (weight * 100) / (height * height), height # 0.
CalculatedBmiAdjustment(weight, height) ==
    IF weight * 1000 < 185 * height * height THEN -15
    ELSE IF weight * 100 >= 30 * height * height THEN -30
    ELSE IF weight * 100 >= 25 * height * height THEN -15
    ELSE 10

\* idealWeight in hundredths of a kilogram:
\* (heightInM - 1) * 100 * 0.9 kg = (height - 100) * 90 hundredths.
IdealWeight(height, sex) ==
    IF sex = Some("male") THEN (height - 100) * 90 ELSE (height - 100) * 85

\* weightDifference = |weight - idealWeight| / idealWeight.  For a zero
\* idealWeight the quotient is +Infinity (weight is truthy, hence # 0); for a
\* negative idealWeight it is not positive.
WeightDifferenceAdjustment(weight, idealWeight) ==
    IF idealWeight > 0
    THEN IF Abs(weight - idealWeight) * 10 > 3 * idealWeight THEN -20
         ELSE IF Abs(weight - idealWeight) * 100 > 15 * idealWeight THEN -10
         ELSE 0
    ELSE IF idealWeight = 0 THEN -20
    ELSE 0

BmiBranch(d) ==
    IF Truthy(d.bmi) THEN SuppliedBmiAdjustment(d.bmi[1])
    ELSE IF Truthy(d.weight) /\ Truthy(d.height)
         THEN CalculatedBmiAdjustment(d.weight[1], d.height[1])
         ELSE 0

IdealWeightBranch(d) ==
    IF Truthy(d.weight) /\ Truthy(d.height) /\ Truthy(d.age)
       /\ d.biologicalSex # Null
    THEN WeightDifferenceAdjustment(d.weight[1],
                                    IdealWeight(d.height[1], d.biologicalSex))
    ELSE 0

\* The two adjustments as alternatives: the ideal-weight adjustment only when
\* the BMI chain contributed nothing.
calculateMetabolicScoreExclusive(d) ==
    Clamp(100 + (IF BmiBranch(d) # 0 THEN BmiBranch(d)
                 ELSE IdealWeightBranch(d)))

calculateMetabolicScore(d) == Clamp(100 + BmiBranch(d) + IdealWeightBranch(d))

---------------------------------------------------------------------------
(* calculateActivityScore                                                  *)

\* The chain with the 12000 tier tested before the 10000 tier.
StepAdjustmentTopTierFirst(steps) ==
    IF steps < 3000 THEN -40
    ELSE IF steps < 5000 THEN -25
    ELSE IF steps < 7000 THEN -10
    ELSE IF steps >= 12000 THEN 20
    ELSE IF steps >= 10000 THEN 15
    ELSE 0

StepAdjustment(steps) ==
    IF steps < 3000 THEN -40
    ELSE IF steps < 5000 THEN -25
    ELSE IF steps < 7000 THEN -10
    ELSE IF steps >= 10000 THEN 15
    ELSE IF steps >= 12000 THEN 20
    ELSE 0

\* targetCalories, in kcal; the factor 1.2 is applied as 12/10 (all three
\* age targets are multiples of 10).
TargetCalories(d) ==
    IF Truthy(d.age) /\ d.biologicalSex # Null
    THEN LET byAge == IF d.age[1] < 30 THEN 400
                      ELSE IF d.age[1] < 50 THEN 350
                      ELSE 250
         IN  IF d.biologicalSex = Some("male") THEN (byAge * 12) \div 10
             ELSE byAge
    ELSE 300

\* The chain with the 1.5 tier tested before the 1.2 tier.
CalorieAdjustmentTopTierFirst(calories, targetCalories) ==
    IF calories * 10 < 3 * targetCalories THEN -30
    ELSE IF calories * 10 < 6 * targetCalories THEN -15
    ELSE IF calories * 10 >= 15 * targetCalories THEN 20
    ELSE IF calories * 10 >= 12 * targetCalories THEN 15
    ELSE 0

\* calorieRatio = calories / targetCalories, targetCalories > 0.
CalorieAdjustment(calories, targetCalories) ==
    IF calories * 10 < 3 * targetCalories THEN -30
    ELSE IF calories * 10 < 6 * targetCalories THEN -15
    ELSE IF calories * 10 >= 12 * targetCalories THEN 15
    ELSE IF calories * 10 >= 15 * targetCalories THEN 20
    ELSE 0

\* A null stepCount scored as a reading of zero steps.
calculateActivityScoreNullAsZero(d) ==
    LET s1 == StepAdjustment(IF d.stepCount # Null THEN d.stepCount[1] ELSE 0)
        s2 == IF d.activeEnergyBurned # Null
              THEN CalorieAdjustment(d.activeEnergyBurned[1], TargetCalories(d))
              ELSE 0
    IN  Clamp(100 + s1 + s2)

calculateActivityScore(d) ==
    LET s1 == IF d.stepCount # Null THEN StepAdjustment(d.stepCount[1]) ELSE 0
        s2 == IF d.activeEnergyBurned # Null
              THEN CalorieAdjustment(d.activeEnergyBurned[1], TargetCalories(d))
              ELSE 0
    IN  Clamp(100 + s1 + s2)

---------------------------------------------------------------------------
(* calculateLifestyleScore                                                 *)

LifestyleAgeAdjustment(age) ==
    IF age >= 65 THEN -15
    ELSE IF age >= 50 THEN -8
    ELSE IF age < 25 THEN -5
    ELSE 0

healthMetrics(d) ==
    << d.stepCount, d.heartRate, d.weight, d.height, d.restingHeartRate,
       d.activeEnergyBurned >>

\* A count that takes every non-null metric, zero readings included.
DataCompletenessNonNull(d) ==
    Cardinality({i \in 1..Len(healthMetrics(d)) : healthMetrics(d)[i] # Null})

\* dataCompleteness: the number of metrics with metric !== null && metric > 0
DataCompleteness(d) ==
    Cardinality({i \in 1..Len(healthMetrics(d)) :
                    healthMetrics(d)[i] # Null /\ healthMetrics(d)[i][1] > 0})

\* The bonus turned into a penalty for an incomplete set of readings.
CompletenessBonusOrPenalty(d) ==
    IF DataCompleteness(d) * 10 >= 8 * Len(healthMetrics(d)) THEN 10 ELSE -10

\* completenessRatio >= 0.8, with completenessRatio = dataCompleteness / 6
CompletenessBonus(d) ==
    IF DataCompleteness(d) * 10 >= 8 * Len(healthMetrics(d)) THEN 10 ELSE 0

calculateLifestyleScore(d) ==
    Clamp(100
          + (IF Truthy(d.age) THEN LifestyleAgeAdjustment(d.age[1]) ELSE 0)
          + (IF d.biologicalSex = Some("male") THEN -5 ELSE 0)
          + CompletenessBonus(d))

---------------------------------------------------------------------------
(* applyDemographicAdjustments, determineRiskLevel                         *)

\* The multipliers without the 0.90 band.
AgeMultiplierNoMiddle(age) ==
    IF age >= 65 THEN 85
    ELSE IF age >= 30 THEN 95
    ELSE 100

\* ageMultiplier, in hundredths
AgeMultiplier(age) ==
    IF age >= 65 THEN 85
    ELSE IF age >= 50 THEN 90
    ELSE IF age >= 30 THEN 95
    ELSE 100

\* The argument is the weighted score in hundredths; the value is the
\* adjusted score in ten-thousandths, clamped to [0, 100].
applyDemographicAdjustments(score, d) ==
    LET adjustedScore == IF Truthy(d.age) THEN score * AgeMultiplier(d.age[1])
                         ELSE score * 100
    IN  IF adjustedScore < 0 THEN 0
        ELSE IF adjustedScore > 1000000 THEN 1000000
        ELSE adjustedScore

\* Math.round of a non-negative value given in ten-thousandths: halves go up.
Round(x) == (x + 5000) \div 10000

\* The tiers with strict comparisons.
determineRiskLevelStrict(score) ==
    IF score > 85 THEN "low"
    ELSE IF score > 70 THEN "moderate"
    ELSE IF score > 50 THEN "high"
    ELSE "very-high"

determineRiskLevel(score) ==
    IF score >= 85 THEN "low"
    ELSE IF score >= 70 THEN "moderate"
    ELSE IF score >= 50 THEN "high"
    ELSE "very-high"

---------------------------------------------------------------------------
(* generateRecommendations                                                 *)

TipLowerRestingHR == "cardio: more aerobic exercise, lower resting heart rate"
TipMonitorHeart   == "cardio: monitor blood pressure and heart rate regularly"
TipControlWeight  == "metabolic: control weight, keep a healthy BMI"
TipBalancedDiet   == "metabolic: balanced diet, less processed food"
TipMoreSteps      == "activity: more daily steps, target 10000 a day"
TipStrength       == "activity: strength training 2-3 times a week"
TipSleep          == "lifestyle: enough sleep, 7-9 hours a day"
TipStress         == "lifestyle: learn stress management"
TipKeepItUp       == "generic: keep up the healthy lifestyle"
TipKeepMonitoring == "generic: monitor health indicators regularly"

CardiovascularTips(d, breakdown) ==
    IF breakdown.cardiovascular < 70
    THEN (IF Truthy(d.restingHeartRate) /\ d.restingHeartRate[1] > 80
          THEN <<TipLowerRestingHR>> ELSE <<>>) \o <<TipMonitorHeart>>
    ELSE <<>>

\* The weight tip from a BMI of 25 on, not above 25.
MetabolicTipsFrom25(d, breakdown) ==
    IF breakdown.metabolic < 70
    THEN (IF Truthy(d.bmi) /\ d.bmi[1] >= 2500
          THEN <<TipControlWeight>> ELSE <<>>) \o <<TipBalancedDiet>>
    ELSE <<>>

MetabolicTips(d, breakdown) ==
    IF breakdown.metabolic < 70
    THEN (IF Truthy(d.bmi) /\ d.bmi[1] > 2500
          THEN <<TipControlWeight>> ELSE <<>>) \o <<TipBalancedDiet>>
    ELSE <<>>

ActivityTips(d, breakdown) ==
    IF breakdown.activity < 70
    THEN (IF d.stepCount # Null /\ d.stepCount[1] < 7000
          THEN <<TipMoreSteps>> ELSE <<>>) \o <<TipStrength>>
    ELSE <<>>

LifestyleTips(d, breakdown) ==
    IF breakdown.lifestyle < 70 THEN <<TipSleep, TipStress>> ELSE <<>>

\* A slice that keeps the last four entries instead of the first four.
SliceLast4(recommendations) ==
    SubSeq(recommendations,
           IF Len(recommendations) < 4 THEN 1 ELSE Len(recommendations) - 3,
           Len(recommendations))

\* recommendations.slice(0, 4)
Slice4(recommendations) ==
    SubSeq(recommendations, 1,
           IF Len(recommendations) < 4 THEN Len(recommendations) ELSE 4)

\* The generic entries appended in every case.
AllRecommendationsAlwaysGeneric(d, breakdown) ==
    CardiovascularTips(d, breakdown) \o MetabolicTips(d, breakdown)
    \o ActivityTips(d, breakdown) \o LifestyleTips(d, breakdown)
    \o <<TipKeepItUp, TipKeepMonitoring>>

\* The list before truncation: the four groups in order, or the two generic
\* entries when the four groups are empty.
AllRecommendations(d, breakdown) ==
    LET specific == CardiovascularTips(d, breakdown)
                    \o MetabolicTips(d, breakdown)
                    \o ActivityTips(d, breakdown)
                    \o LifestyleTips(d, breakdown)
    IN  IF Len(specific) = 0 THEN <<TipKeepItUp, TipKeepMonitoring>>
        ELSE specific

generateRecommendations(d, breakdown) ==
    Slice4(AllRecommendations(d, breakdown))

---------------------------------------------------------------------------
(* calculateACMScore                                                       *)

\* weightedScore in hundredths: 0.35, 0.25, 0.25 and 0.15 as 35, 25, 25, 15.
WeightedScore(cardiovascular, metabolic, activity, lifestyle) ==
    cardiovascular * 35 + metabolic * 25 + activity * 25 + lifestyle * 15

calculateACMScore(d) ==
    LET cardiovascular == calculateCardiovascularScore(d)
        metabolic      == calculateMetabolicScore(d)
        activity       == calculateActivityScore(d)
        lifestyle      == calculateLifestyleScore(d)
        weightedScore  == WeightedScore(cardiovascular, metabolic, activity,
                                        lifestyle)
        adjustedScore  == applyDemographicAdjustments(weightedScore, d)
        \* Math.round is the identity on the integer sub-scores
        breakdown      == [cardiovascular |-> cardiovascular,
                           metabolic      |-> metabolic,
                           activity       |-> activity,
                           lifestyle      |-> lifestyle]
        overall        == Round(adjustedScore)
    IN  [overall         |-> overall,
         breakdown       |-> breakdown,
         riskLevel       |-> determineRiskLevel(overall),
         recommendations |-> generateRecommendations(d, breakdown)]

---------------------------------------------------------------------------
(* Snapshots                                                               *)

\* The initial data of useHealthData: every reading null.
EmptyData ==
    [stepCount              |-> Null,
     heartRate              |-> Null,
     weight                 |-> Null,
     height                 |-> Null,
     bloodPressureSystolic  |-> Null,
     bloodPressureDiastolic |-> Null,
     bmi                    |-> Null,
     restingHeartRate       |-> Null,
     activeEnergyBurned     |-> Null,
     age                    |-> Null,
     biologicalSex          |-> Null]

BiologicalSex == Opt({"male", "female", "other"})

---------------------------------------------------------------------------
(* Presentation helpers.  The colours are the source's tokens, the labels  *)
(* are named by ASCII keys.                                                *)

ColorGreen   == "#10B981"
ColorYellow  == "#F59E0B"
ColorRed     == "#EF4444"
ColorDarkRed == "#DC2626"

\* Green only above 85.
getScoreColorAbove85(score) ==
    IF score > 85 THEN ColorGreen
    ELSE IF score >= 70 THEN ColorYellow
    ELSE IF score >= 50 THEN ColorRed
    ELSE ColorDarkRed

getScoreColor(score) ==
    IF score >= 85 THEN ColorGreen
    ELSE IF score >= 70 THEN ColorYellow
    ELSE IF score >= 50 THEN ColorRed
    ELSE ColorDarkRed

LabelLow      == "low risk"
LabelModerate == "moderate risk"
LabelHigh     == "high risk"
LabelVeryHigh == "very high risk"
LabelUnknown  == "unknown"

getRiskLevelDescription(riskLevel) ==
    CASE riskLevel = "low"       -> LabelLow
      [] riskLevel = "moderate"  -> LabelModerate
      [] riskLevel = "high"      -> LabelHigh
      [] riskLevel = "very-high" -> LabelVeryHigh
      [] OTHER                   -> LabelUnknown

\* ACMScore['riskLevel'], and values outside it that reach the default.
RiskLevel == {"low", "moderate", "high", "very-high"}

OtherLevel == {"", "LOW", "severe"}

---------------------------------------------------------------------------
(* useHealthData: the state the hook is constructed with                   *)

InitialState ==
    [data           |-> EmptyData,
     loading        |-> TRUE,
     error          |-> Null,
     hasPermissions |-> FALSE]

\* The hook as mounted: initHealthKit has been called, nothing came back.
HookAtMount ==
    /\ state = InitialState
    /\ initPending = TRUE
    /\ batches = <<>>
    /\ refreshCalls = 0

\* The engine on its own: no ring rendered, the hook as mounted.
Standalone ==
    /\ ring = Null
    /\ HookAtMount
    /\ unreliable = {}

---------------------------------------------------------------------------
(* The engine as a state machine: a snapshot is supplied, then scored.     *)

\* One call of calculateACMScore on the supplied snapshot.
CalculateACMScore ==
    /\ result = Null
    /\ result' = Some(calculateACMScore(data))
    /\ UNCHANGED <<data, ring, hookVars>>

Next == CalculateACMScore

Returned == result # Null

acmScore == result[1]

---------------------------------------------------------------------------
(* Input grids.  Each specification supplies one snapshot from its grid.   *)

MaxRestingHR == 110
MaxHeartRateK == 16
MaxStepK == 15
MaxEnergy == 730
MaxWeightK == 260
MaxBmi == 4000
MaxAge == 70
ScoreMargin == 20
MaxRefresh == 2

\* Mixed snapshots: a few values of every field, all combinations.
Init ==
    /\ Standalone
    /\ result = Null
    /\ data \in
        { [EmptyData EXCEPT !.stepCount = st, !.heartRate = hr,
                            !.restingHeartRate = rhr, !.weight = w,
                            !.height = h, !.bmi = b,
                            !.activeEnergyBurned = e, !.age = a,
                            !.biologicalSex = sx] :
            st \in Opt({0, 2000, 12000}), hr \in Opt({0, 150}),
            rhr \in Opt({45, 75, 110}), w \in Opt({7000, 10000}),
            h \in Opt({150, 200}), b \in Opt({2200, 3200}),
            e \in Opt({0, 200, 600}), a \in Opt({20, 40, 55, 70}),
            sx \in BiologicalSex }

\* Every resting heart rate 0..MaxRestingHR against heart rates in tens.
InitCardio ==
    /\ Standalone
    /\ result = Null
    /\ data \in
        { [EmptyData EXCEPT !.restingHeartRate = rhr, !.heartRate = hr] :
            rhr \in Opt(0 .. MaxRestingHR),
            hr \in Opt({10 * k : k \in 0 .. MaxHeartRateK}) }

\* Step counts on and just below every thousand, with the energy reading
\* absent, zero, on target and far above target.
InitSteps ==
    /\ Standalone
    /\ result = Null
    /\ data \in
        { [EmptyData EXCEPT !.stepCount = st, !.activeEnergyBurned = e,
                            !.age = a, !.biologicalSex = sx] :
            st \in Opt({1000 * k + j : k \in 0 .. MaxStepK, j \in {-1, 0}}),
            e \in Opt({0, 100, 300, 600}),
            a \in Opt({40}), sx \in Opt({"male"}) }

\* Every whole energy reading 0..MaxEnergy against every calorie target.
InitEnergy ==
    /\ Standalone
    /\ result = Null
    /\ data \in
        { [EmptyData EXCEPT !.activeEnergyBurned = e, !.stepCount = st,
                            !.age = a, !.biologicalSex = sx] :
            e \in Opt(0 .. MaxEnergy),
            st \in Opt({2000, 12000}),
            a \in Opt({0, 29, 30, 49, 50}),
            sx \in BiologicalSex }

\* Weights in steps of half a kilogram against supplied or absent BMI and
\* heights around and above one metre.
InitMetabolic ==
    /\ Standalone
    /\ result = Null
    /\ data \in
        { [EmptyData EXCEPT !.weight = w, !.height = h, !.bmi = b, !.age = a,
                            !.biologicalSex = sx] :
            w \in Opt({50 * k : k \in 0 .. MaxWeightK}),
            h \in Opt({0, 90, 100, 150, 200}),
            b \in Opt({2200, 3200}),
            a \in Opt({0, 40}),
            sx \in BiologicalSex }

\* Every BMI 10.00..MaxBmi/100 in steps of 0.01, supplied in data.bmi or
\* left to be derived from weight and height; the weight is the one that
\* gives this BMI at a height of two metres.
InitBmi ==
    /\ Standalone
    /\ result = Null
    /\ data \in
        { [EmptyData EXCEPT !.bmi = IF supplied THEN Some(b) ELSE Null,
                            !.weight = Some(4 * b), !.height = Some(200),
                            !.age = a, !.biologicalSex = sx] :
            b \in 1000 .. MaxBmi, supplied \in BOOLEAN,
            a \in Opt({40}), sx \in {Some("female")} }

\* Every age 0..MaxAge, every sex, and every pattern of present readings.
InitLifestyle ==
    /\ Standalone
    /\ result = Null
    /\ data \in
        { [EmptyData EXCEPT !.age = a, !.biologicalSex = sx, !.stepCount = st,
                            !.heartRate = hr, !.weight = w, !.height = h,
                            !.restingHeartRate = rhr,
                            !.activeEnergyBurned = e] :
            a \in Opt(-1 .. MaxAge), sx \in BiologicalSex,
            st \in Opt({-1, 0, 8000}), hr \in Opt({0, 70}),
            w \in Opt({7000}), h \in Opt({175}), rhr \in Opt({65}),
            e \in Opt({300}) }


\* Snapshots around the thresholds of the recommendation generator.
InitTips ==
    /\ Standalone
    /\ result = Null
    /\ data \in
        { [EmptyData EXCEPT !.restingHeartRate = rhr, !.heartRate = hr,
                            !.bmi = b, !.weight = w, !.height = h,
                            !.age = a, !.biologicalSex = sx,
                            !.stepCount = st, !.activeEnergyBurned = e] :
            rhr \in Opt({85, 110}), hr \in Opt({150}),
            b \in Opt({1700, 2500, 2501, 3200}),
            w \in Opt({10000}), h \in Opt({150}),
            a \in Opt({40}), sx \in Opt({"female"}),
            st \in Opt({0, 2000, 6999, 7000, 12000}),
            e \in Opt({0, 600}) }

\* The presentation helpers on their own: a score from below 0 to above
\* 100 and a risk level, no colour and no label computed yet.
InitHelpers ==
    /\ data = EmptyData
    /\ result = Null
    /\ HookAtMount
    /\ unreliable = {}
    /\ ring \in [overall         : (0 - ScoreMargin) .. (100 + ScoreMargin),
                 riskLevel       : RiskLevel \cup OtherLevel,
                 scoreColor      : {Null},
                 riskDescription : {Null}]

GetScoreColor ==
    /\ ring # Null
    /\ ring.scoreColor = Null
    /\ ring' = [ring EXCEPT !.scoreColor = Some(getScoreColor(ring.overall))]
    /\ UNCHANGED <<data, result, hookVars>>

GetRiskLevelDescription ==
    /\ ring # Null
    /\ ring.riskDescription = Null
    /\ ring' = [ring EXCEPT !.riskDescription =
                                Some(getRiskLevelDescription(ring.riskLevel))]
    /\ UNCHANGED <<data, result, hookVars>>

NextHelpers == GetScoreColor \/ GetRiskLevelDescription

---------------------------------------------------------------------------
(* useHealthData as a state machine.                                       *)
(*   - A batch is one call of fetchAllHealthData: nine requests to the     *)
(*     provider, then the continuation of `await Promise.allSettled`.      *)
(*     Promise.allSettled waits for all nine answers and does not depend   *)
(*     on their order, so the answers of one batch are taken in the order  *)
(*     of the requests; the answers of different batches, the calls of     *)
(*     refreshData and the continuations interleave freely.                *)
(*   - Every answer is well formed: an error, or a result the callback can *)
(*     read.                                                               *)
(*   - The value a fulfilled request of batch b delivers is the token      *)
(*     <<b>>, so that the data of different batches can be told apart.     *)
(*   - setState takes effect at once.                                      *)

\* The array handed to Promise.allSettled.
Fetches ==
    <<"stepCount", "heartRate", "restingHeartRate", "weight", "height",
      "bmi", "activeEnergyBurned", "biologicalSex", "age">>

Readings == {Fetches[i] : i \in 1 .. Len(Fetches)}

ErrorNoPermission == "cannot get HealthKit permission"

ErrorFetchFailed == "fetching health data failed"

NewBatch == [answered |-> 0, rejected |-> {}, settled |-> FALSE]

Fetched(b, f) == Some(b)

\* Nothing is published when any request was rejected.
PublishedDataAllOrNothing(b) ==
    [f \in DOMAIN EmptyData |->
        IF f \in Readings /\ batches[b].rejected = {}
        THEN Fetched(b, f) ELSE Null]

\* The data object built after the await: the fetched value of a fulfilled
\* request, null for a rejected one and for the two blood pressure fields.
PublishedData(b) ==
    [f \in DOMAIN EmptyData |->
        IF f \in Readings /\ f \notin batches[b].rejected
        THEN Fetched(b, f) ELSE Null]

\* The first setState of fetchAllHealthData.
Loading(s) == [s EXCEPT !.loading = TRUE, !.error = Null]

\* A denial that leaves the loading flag as it is.
InitHealthKitDeniedKeepsLoading ==
    /\ initPending
    /\ initPending' = FALSE
    /\ state' = [state EXCEPT !.error = Some(ErrorNoPermission),
                              !.hasPermissions = FALSE]
    /\ UNCHANGED <<batches, unreliable, refreshCalls, data, result, ring>>

\* The callback of initHealthKit, invoked with an error.
InitHealthKitDenied ==
    /\ initPending
    /\ initPending' = FALSE
    /\ state' = [state EXCEPT !.loading = FALSE,
                              !.error = Some(ErrorNoPermission),
                              !.hasPermissions = FALSE]
    /\ UNCHANGED <<batches, unreliable, refreshCalls, data, result, ring>>

\* The callback of initHealthKit, invoked without an error: permission is
\* recorded and fetchAllHealthData runs up to its await.
InitHealthKitGranted ==
    /\ initPending
    /\ initPending' = FALSE
    /\ state' = Loading([state EXCEPT !.hasPermissions = TRUE])
    /\ batches' = Append(batches, NewBatch)
    /\ UNCHANGED <<unreliable, refreshCalls, data, result, ring>>

\* refreshData without the test of hasPermissions.
RefreshDataUnguarded ==
    /\ refreshCalls < MaxRefresh
    /\ refreshCalls' = refreshCalls + 1
    /\ state' = Loading(state)
    /\ batches' = Append(batches, NewBatch)
    /\ UNCHANGED <<initPending, unreliable, data, result, ring>>

\* One call of refreshData: fetchAllHealthData runs up to its await if the
\* hook has permission, nothing happens otherwise.
RefreshData ==
    /\ refreshCalls < MaxRefresh
    /\ refreshCalls' = refreshCalls + 1
    /\ IF state.hasPermissions
       THEN /\ state' = Loading(state)
            /\ batches' = Append(batches, NewBatch)
       ELSE UNCHANGED <<state, batches>>
    /\ UNCHANGED <<initPending, unreliable, data, result, ring>>

\* The provider answers the next request of batch b: the promise of that
\* fetch is fulfilled (ok) or rejected.
FetchCallback(b, ok) ==
    /\ b \in DOMAIN batches
    /\ batches[b].answered < Len(Fetches)
    /\ LET f == Fetches[batches[b].answered + 1]
       IN  /\ ok \/ f \in unreliable
           /\ batches' = [batches EXCEPT
                            ![b].answered = @ + 1,
                            ![b].rejected = IF ok THEN @ ELSE @ \cup {f}]
    /\ UNCHANGED <<state, initPending, unreliable, refreshCalls,
                   data, result, ring>>

\* Promise.all in place of Promise.allSettled: a rejection reaches the catch
\* branch.
AllSettledOrThrow(b) ==
    /\ b \in DOMAIN batches
    /\ batches[b].answered = Len(Fetches)
    /\ ~batches[b].settled
    /\ state' = IF batches[b].rejected = {}
                THEN [state EXCEPT !.loading = FALSE,
                                   !.data = PublishedData(b)]
                ELSE [state EXCEPT !.loading = FALSE,
                                   !.error = Some(ErrorFetchFailed)]
    /\ batches' = [batches EXCEPT ![b].settled = TRUE]
    /\ UNCHANGED <<initPending, unreliable, refreshCalls, data, result, ring>>

\* The continuation of batch b after its nine promises have settled.  The
\* catch branch is not modelled: Promise.allSettled never rejects and the
\* try block has no other statement that throws.
AllSettled(b) ==
    /\ b \in DOMAIN batches
    /\ batches[b].answered = Len(Fetches)
    /\ ~batches[b].settled
    /\ state' = [state EXCEPT !.loading = FALSE, !.data = PublishedData(b)]
    /\ batches' = [batches EXCEPT ![b].settled = TRUE]
    /\ UNCHANGED <<initPending, unreliable, refreshCalls, data, result, ring>>

\* The view ScreenContent returns for a state of the hook.
View(s) ==
    IF s.loading THEN "loading"
    ELSE IF ~s.hasPermissions THEN "permission"
    ELSE IF s.error # Null THEN "error"
    ELSE "main"

\* The hook without calls of refreshData; every request may be rejected.
InitFetch ==
    /\ data = EmptyData
    /\ result = Null
    /\ ring = Null
    /\ HookAtMount
    /\ unreliable = Readings

\* The hook with calls of refreshData; the provider is reliable or may
\* reject the request for the weight.
InitHook ==
    /\ data = EmptyData
    /\ result = Null
    /\ ring = Null
    /\ HookAtMount
    /\ unreliable \in {{}, {"weight"}}

NextFetch ==
    \/ InitHealthKitDenied
    \/ InitHealthKitGranted
    \/ \E b \in DOMAIN batches, ok \in BOOLEAN : FetchCallback(b, ok)
    \/ \E b \in DOMAIN batches : AllSettled(b)

NextHook ==
    \/ InitHealthKitDenied
    \/ InitHealthKitGranted
    \/ RefreshData
    \/ \E b \in DOMAIN batches, ok \in BOOLEAN : FetchCallback(b, ok)
    \/ \E b \in DOMAIN batches : AllSettled(b)

\* The provider invokes every callback it owes and the JavaScript runtime
\* runs every continuation that is ready.
ProviderFairness ==
    /\ WF_vars(InitHealthKitDenied \/ InitHealthKitGranted)
    /\ \A b \in 1 .. (MaxRefresh + 1) :
          /\ WF_vars(\E ok \in BOOLEAN : FetchCallback(b, ok))
          /\ WF_vars(AllSettled(b))

Spec          == Init /\ [][Next]_vars
SpecHelpers   == InitHelpers /\ [][NextHelpers]_vars
SpecFetch     == InitFetch /\ [][NextFetch]_vars
SpecHook      == InitHook /\ [][NextHook]_vars
SpecHookLive  == InitHook /\ [][NextHook]_vars /\ ProviderFairness
SpecCardio    == InitCardio /\ [][Next]_vars
SpecSteps     == InitSteps /\ [][Next]_vars
SpecEnergy    == InitEnergy /\ [][Next]_vars
SpecMetabolic == InitMetabolic /\ [][Next]_vars
SpecBmi       == InitBmi /\ [][Next]_vars
SpecTips      == InitTips /\ [][Next]_vars
SpecLifestyle == InitLifestyle /\ [][Next]_vars

---------------------------------------------------------------------------
(* Properties of calculateACMScore                                         *)

RiskLevels == {"low", "moderate", "high", "very-high"}

OnlyAge70 == [EmptyData EXCEPT !.age = Some(70)]

\* A complete, bounded result.
C1_Complete(r) ==
    /\ DOMAIN r = {"overall", "breakdown", "riskLevel", "recommendations"}
    /\ r.overall \in 0 .. 100
    /\ DOMAIN r.breakdown
         = {"cardiovascular", "metabolic", "activity", "lifestyle"}
    /\ \A f \in DOMAIN r.breakdown : r.breakdown[f] \in 0 .. 100
    /\ r.riskLevel \in RiskLevels

\* C1: calculateACMScore is total and bounded.  For every snapshot whose
\* fields are independently null or a number (biologicalSex null, male,
\* female or other) the call returns a complete result: overall is an
\* integer in 0..100, each of the four breakdown fields is an integer in
\* 0..100, and riskLevel is one of low, moderate, high, very-high.
C1_TotalAndBounded ==
    IF Returned THEN C1_Complete(acmScore)
    ELSE C1_Complete(calculateACMScore(data))

\* C1 witness: a partial snapshot (heart rate readings present, weight and
\* age absent) has been scored, with a sub-score that the upper clamp cut.
C1_Witness ==
    /\ Returned
    /\ data.restingHeartRate = Some(45) /\ data.heartRate = Null
    /\ data.weight = Null /\ data.age = Null
    /\ data.stepCount = Some(12000)
    /\ acmScore.breakdown.cardiovascular = 100
    /\ acmScore.breakdown.activity = 100

\* C2: the risk tier of every result is derived solely from the rounded
\* overall score: overall >= 85 gives low, 70..84 moderate, 50..69 high and
\* overall <= 49 very-high (so 85 -> low, 84 -> moderate, 70 -> moderate,
\* 69 -> high, 50 -> high, 49 -> very-high), whatever the snapshot is.
C2_RiskTierFromOverall ==
    Returned =>
        /\ acmScore.overall >= 85 => acmScore.riskLevel = "low"
        /\ acmScore.overall \in 70 .. 84 => acmScore.riskLevel = "moderate"
        /\ acmScore.overall \in 50 .. 69 => acmScore.riskLevel = "high"
        /\ acmScore.overall <= 49 => acmScore.riskLevel = "very-high"
        /\ acmScore.overall = 85 => acmScore.riskLevel = "low"
        /\ acmScore.overall = 84 => acmScore.riskLevel = "moderate"
        /\ acmScore.overall = 70 => acmScore.riskLevel = "moderate"
        /\ acmScore.overall = 69 => acmScore.riskLevel = "high"
        /\ acmScore.overall = 50 => acmScore.riskLevel = "high"
        /\ acmScore.overall = 49 => acmScore.riskLevel = "very-high"

\* C2 witness: a result whose overall score is 49, the highest score of the
\* lowest tier.
C2_Witness ==
    /\ Returned
    /\ acmScore.overall = 49
    /\ acmScore.riskLevel = "very-high"

\* The age multiplier as C3 states it, in hundredths.
C3_Multiplier(age) ==
    IF age = Null THEN 100
    ELSE IF age[1] >= 65 THEN 85
    ELSE IF age[1] >= 50 /\ age[1] < 65 THEN 90
    ELSE IF age[1] >= 30 /\ age[1] < 50 THEN 95
    ELSE 100

\* round(clamp_0_100(x)) for x given in ten-thousandths.
C3_RoundClamp(x) ==
    LET c == IF x < 0 THEN 0 ELSE IF x > 1000000 THEN 1000000 ELSE x
        q == c \div 10000
    IN  IF (c - q * 10000) * 2 >= 10000 THEN q + 1 ELSE q

\* C3: overall = round(clamp_0_100((0.35*cardiovascular + 0.25*metabolic
\* + 0.25*activity + 0.15*lifestyle) * m)) on the clamped sub-scores, with
\* m = 0.85 for age >= 65, 0.90 for 50 <= age < 65, 0.95 for 30 <= age < 50
\* and 1.0 for age < 30 or age absent; the breakdown fields are the
\* sub-scores themselves.  For age = 70 with every other field null:
\* lifestyle 85, breakdown otherwise 100, overall 83.
C3_OverallFormula ==
    Returned =>
        LET b == acmScore.breakdown
        IN  /\ acmScore.overall =
                 C3_RoundClamp((35 * b.cardiovascular + 25 * b.metabolic
                                + 25 * b.activity + 15 * b.lifestyle)
                               * C3_Multiplier(data.age))
            /\ b.cardiovascular = calculateCardiovascularScore(data)
            /\ b.metabolic = calculateMetabolicScore(data)
            /\ b.activity = calculateActivityScore(data)
            /\ b.lifestyle = calculateLifestyleScore(data)
            /\ data = OnlyAge70 =>
                 /\ b.lifestyle = 85
                 /\ b.cardiovascular = 100 /\ b.metabolic = 100
                 /\ b.activity = 100
                 /\ acmScore.overall = 83

\* C3 witness: the snapshot with only age = 70 has been scored as 83.
C3_Witness ==
    /\ Returned
    /\ data = OnlyAge70
    /\ acmScore.overall = 83

\* C10: the recommendations are at most 4 and are exactly the first
\* min(4, n) entries of the n strings generated in the order cardiovascular,
\* metabolic, activity, lifestyle, generic fallback; truncation neither
\* reorders nor skips an earlier entry, so when cardiovascular and metabolic
\* each emit two tips every activity and lifestyle tip is dropped.
C10_TruncationKeepsPrefix ==
    Returned =>
        LET b    == acmScore.breakdown
            recs == acmScore.recommendations
            all  == AllRecommendations(data, b)
            n    == Len(all)
        IN  /\ Len(recs) <= 4
            /\ Len(recs) = IF n < 4 THEN n ELSE 4
            /\ \A i \in 1 .. Len(recs) : recs[i] = all[i]
            /\ Len(CardiovascularTips(data, b)) = 2
                 /\ Len(MetabolicTips(data, b)) = 2
               => recs = << TipLowerRestingHR, TipMonitorHeart,
                            TipControlWeight, TipBalancedDiet >>

\* C10 witness: six strings were generated (two per low dimension) and the
\* result carries four.
C10_Witness ==
    /\ Returned
    /\ Len(AllRecommendations(data, acmScore.breakdown)) = 6
    /\ Len(acmScore.recommendations) = 4
    /\ Len(ActivityTips(data, acmScore.breakdown)) = 2

---------------------------------------------------------------------------
(* Properties of the four sub-scorers                                      *)

\* "Present", said of a numeric reading: supplied and not zero, which is
\* the test `if (data.x)` of the source.  "Non-null" is said where the
\* source tests `!== null`.
Present(x) == x # Null /\ x[1] # 0

OnlySteps(n) == [EmptyData EXCEPT !.stepCount = Some(n)]
OnlyRestingHR(n) == [EmptyData EXCEPT !.restingHeartRate = Some(n)]
OnlyBmi(n) == [EmptyData EXCEPT !.bmi = Some(n)]

\* The step adjustment as C4 states it.
C4_StepAdjustment(steps) ==
    IF steps < 3000 THEN -40
    ELSE IF steps >= 3000 /\ steps <= 4999 THEN -25
    ELSE IF steps >= 5000 /\ steps <= 6999 THEN -10
    ELSE IF steps >= 7000 /\ steps <= 9999 THEN 0
    ELSE 15

\* The energy adjustment that the result was computed with.
EnergyTerm(d) ==
    IF d.activeEnergyBurned # Null
    THEN CalorieAdjustment(d.activeEnergyBurned[1], TargetCalories(d))
    ELSE 0

\* The step adjustment that the result was computed with.
StepTerm(d) ==
    IF d.stepCount # Null THEN StepAdjustment(d.stepCount[1]) ELSE 0

\* C4: for every non-null stepCount (zero included) the step adjustment of
\* the activity sub-score is -40 below 3000, -25 for 3000..4999, -10 for
\* 5000..6999, 0 for 7000..9999 and +15 for every count >= 10000; no count,
\* also none >= 12000, contributes +20.  With only stepCount set, 2000
\* yields activity 60 and 15000 yields activity 100.
C4_StepChain ==
    Returned =>
        /\ acmScore.breakdown.activity =
             Clamp(100
                   + (IF data.stepCount # Null
                      THEN C4_StepAdjustment(data.stepCount[1]) ELSE 0)
                   + EnergyTerm(data))
        /\ data = OnlySteps(2000) => acmScore.breakdown.activity = 60
        /\ data = OnlySteps(15000) => acmScore.breakdown.activity = 100

\* C4 witness: 12000 steps or more together with a zero energy reading;
\* the +15 shows in the sub-score 100 + 15 - 30 = 85.
C4_Witness ==
    /\ Returned
    /\ data.stepCount # Null /\ data.stepCount[1] >= 12000
    /\ data.activeEnergyBurned = Some(0)
    /\ acmScore.breakdown.activity = 85

\* The calorie target as C5 states it.
C5_Target(d) ==
    IF Present(d.age) /\ d.biologicalSex # Null
    THEN IF d.biologicalSex = Some("male")
         THEN (IF d.age[1] < 30 THEN 480
               ELSE IF d.age[1] >= 30 /\ d.age[1] < 50 THEN 420
               ELSE 300)
         ELSE (IF d.age[1] < 30 THEN 400
               ELSE IF d.age[1] >= 30 /\ d.age[1] < 50 THEN 350
               ELSE 250)
    ELSE 300

\* The energy adjustment as C5 states it, ratio = energy / target.
C5_EnergyAdjustment(energy, target) ==
    IF energy * 10 < 3 * target THEN -30
    ELSE IF energy * 10 < 6 * target THEN -15
    ELSE IF energy * 10 < 12 * target THEN 0
    ELSE 15

\* C5: for every non-null activeEnergyBurned the calorie target is 300
\* unless age and biologicalSex are both present, and then 400 for age < 30,
\* 350 for 30 <= age < 50, 250 for age >= 50, times 1.2 for male (480, 420,
\* 300); the adjustment is -30 for ratio < 0.3, -15 for 0.3 <= ratio < 0.6,
\* 0 for 0.6 <= ratio < 1.2 and +15 for every ratio >= 1.2, never +20; the
\* activity sub-score is clamp_0_100(100 + step adjustment + energy
\* adjustment).
C5_EnergyChain ==
    Returned =>
        acmScore.breakdown.activity =
            Clamp(100 + StepTerm(data)
                  + (IF data.activeEnergyBurned # Null
                     THEN C5_EnergyAdjustment(data.activeEnergyBurned[1],
                                              C5_Target(data))
                     ELSE 0))

\* C5 witness: an energy reading of at least 1.5 times a male target,
\* together with 2000 steps; the +15 shows in 100 - 40 + 15 = 75.
C5_Witness ==
    /\ Returned
    /\ data.activeEnergyBurned # Null
    /\ Present(data.age) /\ data.biologicalSex = Some("male")
    /\ data.activeEnergyBurned[1] * 10 >= 15 * C5_Target(data)
    /\ data.stepCount = Some(2000)
    /\ acmScore.breakdown.activity = 75

\* The resting heart rate term r as C6 states it.
C6_r(rhr) ==
    IF rhr = Null THEN 0
    ELSE IF rhr[1] >= 100 THEN -25
    ELSE IF rhr[1] >= 80 /\ rhr[1] < 100 THEN -15
    ELSE IF rhr[1] >= 70 /\ rhr[1] < 80 THEN -8
    ELSE IF rhr[1] >= 60 /\ rhr[1] < 70 THEN -2
    ELSE IF rhr[1] >= 40 /\ rhr[1] <= 55 THEN 5
    ELSE 0

\* The variability term v as C6 states it.
C6_v(hr, rhr) ==
    IF Present(hr) /\ Present(rhr) /\ Abs(hr[1] - rhr[1]) > 30 THEN -10
    ELSE 0

\* C6: cardiovascular = clamp_0_100(100 + r + v); for a present
\* restingHeartRate r is -25 for rhr >= 100, -15 for 80 <= rhr < 100, -8 for
\* 70 <= rhr < 80, -2 for 60 <= rhr < 70, +5 for 40 <= rhr <= 55 and 0
\* otherwise; v is -10 exactly when heartRate and restingHeartRate are both
\* present and |heartRate - restingHeartRate| > 30; r and v are 0 when their
\* inputs are absent.  With only restingHeartRate set, 45 yields 100 and 110
\* yields 75.
C6_CardiovascularFormula ==
    Returned =>
        /\ acmScore.breakdown.cardiovascular =
             LET sum == 100 + C6_r(data.restingHeartRate)
                        + C6_v(data.heartRate, data.restingHeartRate)
             IN  IF sum < 0 THEN 0 ELSE IF sum > 100 THEN 100 ELSE sum
        /\ data = OnlyRestingHR(45) => acmScore.breakdown.cardiovascular = 100
        /\ data = OnlyRestingHR(110) => acmScore.breakdown.cardiovascular = 75

\* C6 witness: a resting heart rate in 40..55 and a heart rate more than 30
\* away from it; the +5 and the -10 show in 100 + 5 - 10 = 95.
C6_Witness ==
    /\ Returned
    /\ Present(data.restingHeartRate) /\ Present(data.heartRate)
    /\ data.restingHeartRate[1] \in 40 .. 55
    /\ Abs(data.heartRate[1] - data.restingHeartRate[1]) > 30
    /\ acmScore.breakdown.cardiovascular = 95

\* idealWeight of C7 in hundredths of a kilogram.
C7_IdealWeight(d) ==
    (d.height[1] - 100) * (IF d.biologicalSex = Some("male") THEN 90 ELSE 85)

\* d > num/100 for the relative deviation d = |weight - idealWeight| /
\* idealWeight of C7.  The quotient by a zero idealWeight is +Infinity and
\* the quotient by a negative idealWeight is not positive.
C7_DeviationAbove(d, num) ==
    LET ideal == C7_IdealWeight(d)
    IN  IF ideal > 0 THEN Abs(d.weight[1] - ideal) * 100 > num * ideal
        ELSE ideal = 0

\* The ideal-weight adjustment as C7 states it.
C7_IdealWeightAdjustment(d) ==
    IF Present(d.weight) /\ Present(d.height) /\ Present(d.age)
       /\ d.biologicalSex # Null
    THEN IF C7_DeviationAbove(d, 30) THEN -20
         ELSE IF C7_DeviationAbove(d, 15) THEN -10
         ELSE 0
    ELSE 0

\* C7: the BMI-bucket adjustment and the ideal-weight adjustment of the
\* metabolic sub-score are independent and additive.  The ideal-weight
\* adjustment applies exactly when weight, height, age and biologicalSex
\* are all present, with idealWeight = (height/100 - 1) * 100 * (0.9 if male
\* else 0.85) and d = |weight - idealWeight| / idealWeight: -20 for d > 0.3,
\* -10 for 0.15 < d <= 0.3, 0 otherwise; it is added to whatever the BMI
\* bucket contributed, so BMI >= 30 together with d > 0.3 yields 50.  With
\* only bmi = 32 set the metabolic sub-score is 70.
C7_AdditiveAdjustments ==
    Returned =>
        /\ acmScore.breakdown.metabolic =
             Clamp(100 + BmiBranch(data) + C7_IdealWeightAdjustment(data))
        /\ (BmiBranch(data) = -30 /\ C7_IdealWeightAdjustment(data) = -20)
           => acmScore.breakdown.metabolic = 50
        /\ data = OnlyBmi(3200) => acmScore.breakdown.metabolic = 70

\* C7 witness: a supplied BMI of 32 and a weight more than 30% away from a
\* positive ideal weight; both penalties show in 100 - 30 - 20 = 50.
C7_Witness ==
    /\ Returned
    /\ data.bmi = Some(3200)
    /\ Present(data.weight) /\ Present(data.height) /\ Present(data.age)
    /\ data.biologicalSex # Null
    /\ C7_IdealWeight(data) > 0
    /\ C7_DeviationAbove(data, 30)
    /\ acmScore.breakdown.metabolic = 50

\* The four-way BMI rule of C8, for a BMI in hundredths.
C8_Bucket(b) ==
    IF b < 1850 THEN -15
    ELSE IF b >= 3000 THEN -30
    ELSE IF b >= 2500 /\ b < 3000 THEN -15
    ELSE 10

\* The BMI of a snapshot: the supplied one, else weight / (height/100)^2,
\* which is a whole number of hundredths for the weights and the height of
\* SpecBmi.
C8_Bmi(d) ==
    IF d.bmi # Null THEN d.bmi[1]
    ELSE (d.weight[1] * 10000) \div (d.height[1] * d.height[1])

\* The same snapshot with the BMI moved from supplied to derived, or back.
C8_Other(d) ==
    [d EXCEPT !.bmi = IF d.bmi = Null THEN Some(C8_Bmi(d)) ELSE Null]

\* C8: the metabolic sub-scorer applies the identical four-way BMI rule
\* whether BMI is supplied or derived: for every BMI b in 10..40 at 0.01
\* resolution, the bucket adjustment for a supplied bmi = b equals the one
\* for bmi null and weight/(height/100)^2 = b, namely -15 for b < 18.5, -30
\* for b >= 30, -15 for 25 <= b < 30 and +10 otherwise.
C8_SameRuleSuppliedOrDerived ==
    Returned =>
        /\ acmScore.breakdown.metabolic =
             Clamp(100 + C8_Bucket(C8_Bmi(data)) + IdealWeightBranch(data))
        /\ acmScore.breakdown.metabolic
             = calculateMetabolicScore(C8_Other(data))

\* The number of the six readings that are non-null and > 0.
C9_Readings(d) ==
    LET n(x) == IF x # Null /\ x[1] > 0 THEN 1 ELSE 0
    IN  n(d.stepCount) + n(d.heartRate) + n(d.weight) + n(d.height)
        + n(d.restingHeartRate) + n(d.activeEnergyBurned)

\* C9: lifestyle = clamp_0_100(100 + a + s + c); a is -15 for age >= 65, -8
\* for 50 <= age < 65, -5 for a present age < 25 and 0 otherwise (also for
\* age absent); s is -5 exactly when biologicalSex is male; c is +10 exactly
\* when at least 5 of the 6 readings stepCount, heartRate, weight, height,
\* restingHeartRate, activeEnergyBurned are non-null and > 0, else 0.
C9_LifestyleFormula ==
    Returned =>
        LET a == IF data.age = Null THEN 0
                 ELSE IF data.age[1] >= 65 THEN -15
                 ELSE IF data.age[1] >= 50 /\ data.age[1] < 65 THEN -8
                 ELSE IF Present(data.age) /\ data.age[1] < 25 THEN -5
                 ELSE 0
            s == IF data.biologicalSex = Some("male") THEN -5 ELSE 0
            c == IF C9_Readings(data) >= 5 THEN 10 ELSE 0
            sum == 100 + a + s + c
        IN  acmScore.breakdown.lifestyle =
              IF sum < 0 THEN 0 ELSE IF sum > 100 THEN 100 ELSE sum

\* C9 witness: a male of 65 or more with exactly five of the six readings
\* positive (the sixth is a zero reading): 100 - 15 - 5 + 10 = 90.
C9_Witness ==
    /\ Returned
    /\ data.age # Null /\ data.age[1] >= 65
    /\ data.biologicalSex = Some("male")
    /\ C9_Readings(data) = 5
    /\ data.heartRate = Some(0)
    /\ acmScore.breakdown.lifestyle = 90

---------------------------------------------------------------------------
(* Properties of the recommendation generator                              *)

Elements(seq) == {seq[i] : i \in 1 .. Len(seq)}

Take4(seq) == SubSeq(seq, 1, IF Len(seq) < 4 THEN Len(seq) ELSE 4)

\* C11: the two generic fallback strings are emitted exactly when no
\* breakdown dimension is below 70: if all four breakdown values are >= 70
\* the recommendations are exactly the two generic strings in their fixed
\* order, and if any dimension is < 70 neither generic string is in the list.
C11_GenericFallback ==
    Returned =>
        LET b    == acmScore.breakdown
            recs == acmScore.recommendations
            none == /\ b.cardiovascular >= 70 /\ b.metabolic >= 70
                    /\ b.activity >= 70 /\ b.lifestyle >= 70
        IN  /\ none => recs = <<TipKeepItUp, TipKeepMonitoring>>
            /\ ~none => /\ TipKeepItUp \notin Elements(recs)
                        /\ TipKeepMonitoring \notin Elements(recs)

\* C11 witness: one dimension is below 70 and contributes a single tip; the
\* list has that tip only, without the generic strings.
C11_Witness ==
    /\ Returned
    /\ acmScore.breakdown.metabolic < 70
    /\ acmScore.breakdown.cardiovascular >= 70
    /\ acmScore.breakdown.activity >= 70
    /\ acmScore.recommendations = <<TipBalancedDiet>>

\* The tips of each dimension as C12 states them.
C12_Cardiovascular(d, b) ==
    IF b.cardiovascular < 70
    THEN (IF d.restingHeartRate # Null /\ d.restingHeartRate[1] > 80
          THEN <<TipLowerRestingHR>> ELSE <<>>) \o <<TipMonitorHeart>>
    ELSE <<>>

C12_Metabolic(d, b) ==
    IF b.metabolic < 70
    THEN (IF d.bmi # Null /\ d.bmi[1] > 2500
          THEN <<TipControlWeight>> ELSE <<>>) \o <<TipBalancedDiet>>
    ELSE <<>>

C12_Activity(d, b) ==
    IF b.activity < 70
    THEN (IF d.stepCount # Null /\ d.stepCount[1] < 7000
          THEN <<TipMoreSteps>> ELSE <<>>) \o <<TipStrength>>
    ELSE <<>>

C12_Lifestyle(d, b) ==
    IF b.lifestyle < 70 THEN <<TipSleep, TipStress>> ELSE <<>>

C12_Tips(d, b) ==
    C12_Cardiovascular(d, b) \o C12_Metabolic(d, b) \o C12_Activity(d, b)
    \o C12_Lifestyle(d, b)

\* C12: before truncation, each breakdown dimension strictly below 70
\* contributes its tips: cardiovascular the heart-rate tip exactly when
\* restingHeartRate > 80, then always the monitoring tip; metabolic the
\* weight tip exactly when the supplied bmi is > 25, then always the diet
\* tip; activity the step tip exactly when stepCount is non-null and < 7000,
\* then always the strength tip; lifestyle its two fixed tips.  A dimension
\* at or above 70 (70 included) contributes no tip.
C12_TipsPerDimension ==
    Returned =>
        LET b    == acmScore.breakdown
            tips == C12_Tips(data, b)
        IN  /\ Len(tips) > 0 =>
                 /\ AllRecommendations(data, b) = tips
                 /\ acmScore.recommendations = Take4(tips)
            /\ Len(tips) = 0 =>
                 Elements(acmScore.recommendations)
                   = {TipKeepItUp, TipKeepMonitoring}

\* C12 witness: metabolic is below 70 with a supplied BMI of exactly 25 (no
\* weight tip), activity is below 70 with 6999 steps (step tip), and
\* cardiovascular is not below 70.
C12_Witness ==
    /\ Returned
    /\ acmScore.breakdown.metabolic < 70 /\ data.bmi = Some(2500)
    /\ acmScore.breakdown.activity < 70 /\ data.stepCount = Some(6999)
    /\ acmScore.breakdown.cardiovascular >= 70
    /\ acmScore.recommendations
         = <<TipBalancedDiet, TipMoreSteps, TipStrength>>

\* C13: for the empty snapshot (every field null) calculateACMScore returns
\* cardiovascular = metabolic = activity = lifestyle = 100, overall = 100,
\* riskLevel = low and exactly the two generic fallback strings.
C13_EmptySnapshot ==
    (Returned /\ data = EmptyData) =>
        /\ acmScore.breakdown = [cardiovascular |-> 100, metabolic |-> 100,
                                 activity |-> 100, lifestyle |-> 100]
        /\ acmScore.overall = 100
        /\ acmScore.riskLevel = "low"
        /\ acmScore.recommendations = <<TipKeepItUp, TipKeepMonitoring>>

\* C13 witness: the empty snapshot has been scored.
C13_Witness ==
    /\ Returned
    /\ data = EmptyData
    /\ \A f \in DOMAIN data : data[f] = Null
    /\ acmScore.overall = 100

\* C20: for every snapshot the lifestyle sub-score is at least 80 (the
\* largest combined penalty is -15 for age and -5 for male), so
\* breakdown.lifestyle is never below 70 and the two lifestyle
\* recommendation strings never appear in a result.
C20_LifestyleAtLeast80 ==
    Returned =>
        /\ acmScore.breakdown.lifestyle >= 80
        /\ ~(acmScore.breakdown.lifestyle < 70)
        /\ TipSleep \notin Elements(acmScore.recommendations)
        /\ TipStress \notin Elements(acmScore.recommendations)

\* C20 witness: a male of 65 or more with fewer than five positive readings
\* has the lowest lifestyle sub-score, 80.
C20_Witness ==
    /\ Returned
    /\ data.age # Null /\ data.age[1] >= 65
    /\ data.biologicalSex = Some("male")
    /\ acmScore.breakdown.lifestyle = 80

---------------------------------------------------------------------------
(* Properties of the presentation helpers                                  *)

C14_Colours == {ColorGreen, ColorYellow, ColorRed, ColorDarkRed}

C14_ColourOfTier(level) ==
    CASE level = "low"       -> ColorGreen
      [] level = "moderate"  -> ColorYellow
      [] level = "high"      -> ColorRed
      [] level = "very-high" -> ColorDarkRed

\* C14: getScoreColor is total over every integer, negative and above 100
\* included, and its buckets coincide with the risk tiers: green, yellow,
\* red, dark red exactly when determineRiskLevel gives low, moderate, high,
\* very-high, with the boundaries 85 / 70 / 50.  getRiskLevelDescription
\* maps the four levels to four distinct labels and any other value to the
\* default label.
C14_ColourAndLabel ==
    ring # Null =>
        LET s == ring.overall
            c == getScoreColor(s)
            l == getRiskLevelDescription(ring.riskLevel)
        IN  /\ c \in C14_Colours
            /\ c = C14_ColourOfTier(determineRiskLevel(s))
            /\ (c = ColorGreen) = (s >= 85)
            /\ (c = ColorYellow) = (70 <= s /\ s < 85)
            /\ (c = ColorRed) = (50 <= s /\ s < 70)
            /\ (c = ColorDarkRed) = (s < 50)
            /\ ring.scoreColor # Null => ring.scoreColor = Some(c)
            /\ ring.riskDescription # Null => ring.riskDescription = Some(l)
            /\ Cardinality({getRiskLevelDescription(x) : x \in RiskLevels}) = 4
            /\ LabelUnknown \notin {getRiskLevelDescription(x) : x \in RiskLevels}
            /\ (l = LabelUnknown) = (ring.riskLevel \notin RiskLevels)

\* C14 witness: a score above 100 has been coloured green and a value that
\* is no risk level has been given the default label.
C14_Witness ==
    /\ ring # Null
    /\ ring.overall > 100
    /\ ring.scoreColor = Some(ColorGreen)
    /\ ring.riskLevel \notin RiskLevels
    /\ ring.riskDescription = Some(LabelUnknown)

---------------------------------------------------------------------------
(* Properties of useHealthData                                             *)

InFlight == {b \in DOMAIN batches : ~batches[b].settled}

\* C15: when a fetch batch completes, each of the nine readings is
\* published as its fetched value if its own fetch succeeded and as null if
\* it failed, independently of the others; the failure of any subset of the
\* nine, all of them included, never sets error, never keeps another field
\* from being published and always ends the batch with loading = false.
C15_PartialFailure ==
    [][\A b \in DOMAIN batches :
          (~batches[b].settled /\ batches'[b].settled) =>
              /\ \A f \in Readings :
                    state'.data[f] = IF f \in batches[b].rejected
                                     THEN Null ELSE Fetched(b, f)
              /\ state'.error = state.error
              /\ state'.error = Null
              /\ state'.loading = FALSE]_vars

\* C15 witness: a batch has completed with three of its nine fetches
\* failed; the other six readings are published and loading is false.
C15_Witness ==
    /\ Len(batches) = 1
    /\ batches[1].settled
    /\ batches[1].rejected = {"stepCount", "bmi", "age"}
    /\ state.data.bmi = Null
    /\ state.data.weight = Fetched(1, "weight")
    /\ state.error = Null
    /\ ~state.loading

C16_Denied == ~initPending /\ ~state.hasPermissions

\* C16: if initHealthKit reports an error the state becomes loading = false,
\* error non-null, hasPermissions = false with data still all-null and no
\* batch started, and that state is terminal: later calls of refreshData
\* start no fetch and leave loading, error, hasPermissions and data
\* unchanged.
C16_DenialIsTerminal ==
    [][C16_Denied' =>
          /\ state'.loading = FALSE
          /\ state'.error # Null
          /\ state'.hasPermissions = FALSE
          /\ state'.data = EmptyData
          /\ batches' = <<>>
          /\ C16_Denied => UNCHANGED <<state, batches>>]_vars

\* C16 witness: permission was denied and refreshData has been called
\* since, as often as the bound allows.
C16_Witness ==
    /\ C16_Denied
    /\ state.error # Null
    /\ refreshCalls = MaxRefresh

\* C17: the state starts with loading = true, and provided the provider
\* eventually invokes every callback, loading eventually becomes false,
\* whether permission is granted or denied and whichever readings fail;
\* after any refreshData that starts a batch, loading likewise eventually
\* returns to false.
C17_LoadingEnds ==
    /\ state.loading
    /\ state.loading ~> ~state.loading

\* C17 witness: a batch started by refreshData has completed with a failed
\* reading and loading is false again.
C17_Witness ==
    /\ refreshCalls >= 1
    /\ Len(batches) >= 2
    /\ InFlight = {}
    /\ batches[2].rejected # {}
    /\ ~state.loading

\* C18: for every interleaving of refreshData calls and provider callbacks,
\* loading = false implies that no fetch batch is still in flight.
C18_IdleWhenNotLoading ==
    ~state.loading => InFlight = {}

\* C19: in every reachable state error non-null implies hasPermissions =
\* false (only permission denial sets error); consequently the data-error
\* view of ScreenContent, which needs loading = false, hasPermissions = true
\* and error non-null, is never displayed.
C19_ErrorOnlyWithoutPermission ==
    /\ state.error # Null => state.hasPermissions = FALSE
    /\ ~(~state.loading /\ state.hasPermissions /\ state.error # Null)
    /\ View(state) # "error"

\* C19 witness: error is set; the permission view is displayed.
C19_Witness ==
    /\ state.error # Null
    /\ View(state) = "permission"

====
